---- MODULE Spec2Model ----
(***************************************************************************)
(* Model of the persona / locations web application:                       *)
(*   - the two POST route handlers (src/app/api/locations/route.ts),       *)
(*   - ExaClient.searchXProfile and ExaClient.extractProfileInfo           *)
(*     (src/app/lib/exa.ts),                                               *)
(*   - OpenAIClient.generatePersona (src/app/lib/openai.ts).               *)
(* JavaScript strings are TLA+ strings handled character by character      *)
(* (Len, SubSeq, \o); other JavaScript values are tagged records           *)
(* [t |-> type, v |-> payload].                                            *)
(***************************************************************************)
EXTENDS Integers, Sequences, FiniteSets, TLC

VARIABLES
    request,    \* the request being answered: [endpoint, body]
    env,        \* what the vendors would answer during this request
    response,   \* the NextResponse the handler returned: [status, body]
    calls,      \* outbound client methods invoked during the request, in order
    logged,     \* message of the error handed to console.error by the route
    input,      \* arguments of the library function under examination
    output,     \* its outcome: [kind |-> "return" | "throw", ...]
    mapProps,   \* LocationMap: the props of the latest render
    mapCenter,  \* LocationMap: the mapCenter state
    effectPending,  \* LocationMap: the centring effect has yet to run
    exaClientInstance,     \* exa.ts: the module's clientInstance
    openaiClientInstance,  \* openai.ts: the module's clientInstance
    constructed,  \* client objects built so far, per class
    returned    \* what the accessors handed out, in order: [accessor, instance]

routeVars == <<request, env, response, calls, logged>>
mapVars == <<mapProps, mapCenter, effectPending>>
clientVars ==
    <<exaClientInstance, openaiClientInstance, constructed, returned>>

vars == <<routeVars, input, output, mapVars, clientVars>>

(***************************************************************************)
(* Bounds of the model.                                                    *)
(***************************************************************************)
MaxHandleLen == 3
MaxChunks == 2
MaxTweets == 11

(***************************************************************************)
(* JavaScript values.                                                      *)
(***************************************************************************)
Undefined == [t |-> "undefined", v |-> ""]
Null == [t |-> "null", v |-> ""]
Str(s) == [t |-> "string", v |-> s]
Num(n) == [t |-> "number", v |-> n]
Bool(b) == [t |-> "boolean", v |-> b]
Arr(items) == [t |-> "array", v |-> items]
Obj(props) == [t |-> "object", v |-> props]

\* ToBoolean, as applied by `!x`, `a || b`, `a && b` and `if (x)`.
Truthy(x) ==
    CASE x.t = "undefined" -> FALSE
      [] x.t = "null" -> FALSE
      [] x.t = "string" -> x.v # ""
      [] x.t = "number" -> x.v # 0
      [] x.t = "boolean" -> x.v
      [] OTHER -> TRUE

\* Property read `x.key`: a TypeError on undefined and null, undefined on a
\* primitive or on an object without the property.
CanReadProps(x) == x.t \notin {"undefined", "null"}

GetProp(x, key) ==
    IF x.t = "object" /\ key \in DOMAIN x.v THEN x.v[key] ELSE Undefined

(***************************************************************************)
(* String primitives of the JavaScript runtime.                            *)
(***************************************************************************)
StartsWith(s, p) == Len(s) >= Len(p) /\ SubSeq(s, 1, Len(p)) = p

Includes(s, p) ==
    \E i \in 1..(Len(s) - Len(p) + 1) : SubSeq(s, i, i + Len(p) - 1) = p

CharAt(s, i) == SubSeq(s, i, i)

WhiteSpace == {" ", "\t", "\n", "\r"}

\* String.prototype.trim
Trim(s) ==
    LET inked == {i \in 1..Len(s) : CharAt(s, i) \notin WhiteSpace}
    IN  IF inked = {} THEN ""
        ELSE LET first == CHOOSE i \in inked : \A j \in inked : i <= j
                 last == CHOOSE i \in inked : \A j \in inked : j <= i
             IN  SubSeq(s, first, last)

\* String.prototype.split('\n')
RECURSIVE SplitLines(_)
SplitLines(s) ==
    LET breaks == {i \in 1..Len(s) : CharAt(s, i) = "\n"}
    IN  IF breaks = {} THEN <<s>>
        ELSE LET b == CHOOSE i \in breaks : \A j \in breaks : i <= j
             IN  <<SubSeq(s, 1, b - 1)>> \o SplitLines(SubSeq(s, b + 1, Len(s)))

\* Array.prototype.join
RECURSIVE Join(_, _)
Join(seq, sep) ==
    IF seq = <<>> THEN ""
    ELSE IF Len(seq) = 1 THEN seq[1]
    ELSE seq[1] \o sep \o Join(Tail(seq), sep)

\* Variant of the replacement that removes every leading "@".
StripAllLeadingAt(s) ==
    LET keep == {i \in 1..Len(s) : CharAt(s, i) # "@"}
    IN  IF keep = {} THEN ""
        ELSE SubSeq(s, CHOOSE i \in keep : \A j \in keep : i <= j, Len(s))

\* String.prototype.replace(/^@/, ''): the pattern is anchored and not
\* global, so at most one character is removed.
ReplaceLeadingAt(s) ==
    IF StartsWith(s, "@") THEN SubSeq(s, 2, Len(s)) ELSE s

(***************************************************************************)
(* Outcomes of a call: a returned value or a thrown Error.                 *)
(***************************************************************************)
Return(value) == [kind |-> "return", value |-> value, message |-> ""]
Throw(message) == [kind |-> "throw", value |-> Undefined, message |-> message]

NoValue == [kind |-> "none"]

(***************************************************************************)
(* ExaClient.searchXProfile                                                *)
(***************************************************************************)
SearchFailureMessage == "Failed to search X profile"

SearchQuery(xHandle) ==
    LET cleanHandle == ReplaceLeadingAt(xHandle)
    IN  "site:twitter.com @" \o cleanHandle \o " OR from:" \o cleanHandle

\* apiKey: the key held by the client (a JavaScript value); post: the
\* outcome of axios.post for the query, Return(response.data) or Throw(..).
\* The result also records the request that went out, if any.
searchXProfile(apiKey, xHandle, post) ==
    IF ~Truthy(apiKey)
    THEN [outcome |-> Throw(SearchFailureMessage), sent |-> <<>>,
          cause |-> "Exa API key is required"]
    ELSE IF post.kind = "throw"
    THEN [outcome |-> Throw(SearchFailureMessage),
          sent |-> <<SearchQuery(xHandle)>>, cause |-> post.message]
    ELSE [outcome |-> Return(post.value),
          sent |-> <<SearchQuery(xHandle)>>, cause |-> ""]

HandleAlphabet == {"@", "j", "d"}

RECURSIVE StringsOver(_, _)
StringsOver(alphabet, n) ==
    IF n = 0 THEN {""}
    ELSE LET shorter == StringsOver(alphabet, n - 1)
         IN  shorter \cup {s \o c : s \in shorter, c \in alphabet}

Handles == StringsOver(HandleAlphabet, MaxHandleLen)

ApiKeys == {Undefined, Str(""), Str("key")}

EmptySearchResult == [chunks |-> <<>>]

PostOutcomes ==
    {Return(EmptySearchResult), Throw("Request failed with status code 401"),
     Throw("Network Error")}

SearchInputs ==
    [fn : {"searchXProfile"}, apiKey : ApiKeys, xHandle : Handles,
     post : PostOutcomes]

\* No request has arrived.
NoRequest ==
    /\ request = NoValue
    /\ env = NoValue
    /\ response = NoValue
    /\ calls = <<>>
    /\ logged = ""

\* The map component is not mounted.
Unmounted ==
    /\ mapProps = NoValue
    /\ mapCenter = NoValue
    /\ effectPending = FALSE

\* The client modules as loaded: `let clientInstance = null`, nothing built.
ModulesLoaded ==
    /\ exaClientInstance = Null
    /\ openaiClientInstance = Null
    /\ constructed = [ExaClient |-> 0, OpenAIClient |-> 0, OpenAI |-> 0]
    /\ returned = <<>>

Idle ==
    /\ NoRequest
    /\ Unmounted
    /\ ModulesLoaded

InitSearch ==
    /\ Idle
    /\ input \in SearchInputs
    /\ output = NoValue

CallSearchXProfile ==
    /\ input.fn = "searchXProfile"
    /\ output = NoValue
    /\ output' = searchXProfile(input.apiKey, input.xHandle, input.post)
    /\ UNCHANGED <<routeVars, input, mapVars, clientVars>>

NextSearch == CallSearchXProfile

SpecSearch == InitSearch /\ [][NextSearch]_vars

(***************************************************************************)
(* C9: the handle embedded in the search query.                            *)
(***************************************************************************)
QueryPrefix == "site:twitter.com @"
QueryMiddle == " OR from:"

\* The two places of a sent query that hold the handle: after the prefix
\* and after "from:" (both copies have the same length).
EmbeddedLen(query) == (Len(query) - Len(QueryPrefix) - Len(QueryMiddle)) \div 2

EmbeddedAfterSite(query) ==
    SubSeq(query, Len(QueryPrefix) + 1, Len(QueryPrefix) + EmbeddedLen(query))

EmbeddedAfterFrom(query) ==
    SubSeq(query, Len(query) - EmbeddedLen(query) + 1, Len(query))

QueryWellFormed(query) ==
    query = QueryPrefix \o EmbeddedAfterSite(query)
                \o QueryMiddle \o EmbeddedAfterFrom(query)

SearchSent ==
    /\ input.fn = "searchXProfile"
    /\ output # NoValue
    /\ output.sent # <<>>

\* C9 as stated: whenever searchXProfile sends a query for a handle that
\* begins with "@", both embedded handles are the input without its first
\* character and do not begin with "@"; a handle without a leading "@" is
\* embedded unchanged.
C9_AsStated ==
    SearchSent =>
        LET h == input.xHandle
            q == output.sent[1]
        IN  /\ QueryWellFormed(q)
            /\ EmbeddedAfterSite(q) = EmbeddedAfterFrom(q)
            /\ StartsWith(h, "@") =>
                   /\ EmbeddedAfterFrom(q) = SubSeq(h, 2, Len(h))
                   /\ ~StartsWith(EmbeddedAfterFrom(q), "@")
            /\ ~StartsWith(h, "@") => EmbeddedAfterFrom(q) = h

\* C9 amended: whenever searchXProfile sends a query, both embedded handles
\* are the input with exactly one leading "@" removed (the input itself when
\* it has none); the embedded handle begins with "@" exactly when the input
\* begins with "@@".
C9_OneLeadingAtStripped ==
    SearchSent =>
        LET h == input.xHandle
            q == output.sent[1]
        IN  /\ QueryWellFormed(q)
            /\ EmbeddedAfterSite(q) = EmbeddedAfterFrom(q)
            /\ StartsWith(h, "@") => EmbeddedAfterFrom(q) = SubSeq(h, 2, Len(h))
            /\ ~StartsWith(h, "@") => EmbeddedAfterFrom(q) = h
            /\ StartsWith(EmbeddedAfterFrom(q), "@") <=> StartsWith(h, "@@")

C9_Witness ==
    /\ SearchSent
    /\ StartsWith(input.xHandle, "@")
    /\ Len(input.xHandle) > 1
    /\ output.outcome.kind = "return"

(***************************************************************************)
(* ExaClient.extractProfileInfo                                            *)
(* A chunk is [text, url, extra_info]: text and url are strings (ExaChunk),*)
(* extra_info is Undefined or an object with optional image_url and title. *)
(***************************************************************************)
BioMinLength == 10

EmptyProfileInfo ==
    [tweets |-> <<>>, bio |-> Undefined, profileImageUrl |-> Undefined,
     name |-> Undefined]

\* Variant of the tweet step that skips a text already collected.
NextTweetsWithoutDuplicates(acc, chunk) ==
    IF /\ Trim(chunk.text) # ""
       /\ \A i \in 1..Len(acc.tweets) : acc.tweets[i] # Trim(chunk.text)
    THEN Append(acc.tweets, Trim(chunk.text))
    ELSE acc.tweets

\* if (chunk.text && chunk.text.trim()) tweets.push(chunk.text.trim())
NextTweets(acc, chunk) ==
    IF chunk.text # "" /\ Trim(chunk.text) # ""
    THEN Append(acc.tweets, Trim(chunk.text))
    ELSE acc.tweets

\* Variant of the image step without the lock on an already found image.
NextImageOverwrites(acc, chunk) ==
    LET image == GetProp(chunk.extra_info, "image_url")
    IN  IF Truthy(image) THEN image ELSE acc.profileImageUrl

\* if (!profileImageUrl && chunk.extra_info?.image_url) ...
NextImage(acc, chunk) ==
    LET image == GetProp(chunk.extra_info, "image_url")
    IN  IF ~Truthy(acc.profileImageUrl) /\ Truthy(image)
        THEN image
        ELSE acc.profileImageUrl

\* title.match(/^([^(]+)/)[1]: the longest prefix free of "(", "" standing
\* for a failed match (the group needs one character at least).
TitleMatch(title) ==
    LET parens == {i \in 1..Len(title) : CharAt(title, i) = "("}
    IN  IF parens = {} THEN title
        ELSE SubSeq(title, 1, (CHOOSE i \in parens : \A j \in parens : i <= j) - 1)

\* Variant of the name step without the lock on an already found name.
NextNameOverwrites(acc, chunk) ==
    LET title == GetProp(chunk.extra_info, "title")
    IN  IF Truthy(title) /\ TitleMatch(title.v) # ""
        THEN Str(Trim(TitleMatch(title.v)))
        ELSE acc.name

\* if (!name && chunk.extra_info?.title) { match; name = match[1].trim() }
NextName(acc, chunk) ==
    LET title == GetProp(chunk.extra_info, "title")
    IN  IF ~Truthy(acc.name) /\ Truthy(title) /\ TitleMatch(title.v) # ""
        THEN Str(Trim(TitleMatch(title.v)))
        ELSE acc.name

\* The filter applied to the trimmed lines of a profile page.
IsBioLine(line) ==
    /\ Len(line) > BioMinLength
    /\ ~Includes(line, "Followers")
    /\ ~Includes(line, "Following")
    /\ ~Includes(line, "Posts")
    /\ ~StartsWith(line, "@")

TrimAll(lines) == [i \in 1..Len(lines) |-> Trim(lines[i])]

BioLines(text) == SelectSeq(TrimAll(SplitLines(text)), IsBioLine)

\* Variant of the bio step without the lock on an already found bio.
NextBioOverwrites(acc, chunk) ==
    IF ~Includes(chunk.url, "/status/") /\ BioLines(chunk.text) # <<>>
    THEN Str(BioLines(chunk.text)[1])
    ELSE acc.bio

\* if (!bio && chunk.url.includes('/status/') === false) { ... }
NextBio(acc, chunk) ==
    IF ~Truthy(acc.bio) /\ ~Includes(chunk.url, "/status/")
       /\ BioLines(chunk.text) # <<>>
    THEN Str(BioLines(chunk.text)[1])
    ELSE acc.bio

\* The body of the forEach callback.
ExtractStep(acc, chunk) ==
    [tweets |-> NextTweets(acc, chunk),
     profileImageUrl |-> NextImage(acc, chunk),
     name |-> NextName(acc, chunk),
     bio |-> NextBio(acc, chunk)]

RECURSIVE ExtractFrom(_, _)
ExtractFrom(acc, chunks) ==
    IF chunks = <<>> THEN acc
    ELSE ExtractFrom(ExtractStep(acc, Head(chunks)), Tail(chunks))

extractProfileInfo(searchResult) ==
    ExtractFrom(EmptyProfileInfo, searchResult.chunks)

ChunkTexts ==
    {"",
     " \n ",
     "Followers: 200",
     "Loves hiking and open source.",
     "  Builds maps for fun\t",
     " @jdoe on the web",
     "      hi      ",
     "120 Posts\nCoffee and code.\n@jdoe\nOpen data advocate"}

ChunkUrls == {"https://x.com/jdoe", "https://x.com/jdoe/status/1"}

ChunkExtras ==
    {Undefined,
     Obj([image_url |-> Str("https://img.example/a.png"),
          title |-> Str("Jane Doe (@jdoe) / X")]),
     Obj([image_url |-> Str("https://img.example/b.png"),
          title |-> Str("(@jdoe) / X")])}

\* Metadata with a title that is blank before its parenthesis (and an empty
\* image URL), and with titles but no image URL, one without parenthesis.
TitleExtras ==
    {Obj([image_url |-> Str(""), title |-> Str(" (@jd) / X")]),
     Obj([title |-> Str("JD (@jd) / X")]),
     Obj([title |-> Str(" Jane")])}

Chunks ==
    [text : ChunkTexts, url : ChunkUrls, extra_info : ChunkExtras]
    \cup [text : {"", "Loves hiking and open source."},
          url : {"https://x.com/jdoe"}, extra_info : TitleExtras]

RECURSIVE SeqsUpTo(_, _)
SeqsUpTo(S, n) ==
    IF n = 0 THEN {<<>>}
    ELSE LET shorter == SeqsUpTo(S, n - 1)
         IN  shorter \cup {Append(q, x) : q \in shorter, x \in S}

ExtractInputs ==
    [fn : {"extractProfileInfo"},
     searchResult : [chunks : SeqsUpTo(Chunks, MaxChunks)]]

InitExtract ==
    /\ Idle
    /\ input \in ExtractInputs
    /\ output = NoValue

CallExtractProfileInfo ==
    /\ input.fn = "extractProfileInfo"
    /\ output = NoValue
    /\ output' = Return(extractProfileInfo(input.searchResult))
    /\ UNCHANGED <<routeVars, input, mapVars, clientVars>>

NextExtract == CallExtractProfileInfo

SpecExtract == InitExtract /\ [][NextExtract]_vars

(***************************************************************************)
(* C10: the bio is the first qualifying line and is never replaced.        *)
(***************************************************************************)
Extracted ==
    /\ input.fn = "extractProfileInfo"
    /\ output # NoValue

\* The lines of the chunks that are not individual posts, in chunk order
\* then line order.
RECURSIVE ProfilePageLines(_)
ProfilePageLines(chunks) ==
    IF chunks = <<>> THEN <<>>
    ELSE (IF Includes(Head(chunks).url, "/status/") THEN <<>>
          ELSE SplitLines(Head(chunks).text))
         \o ProfilePageLines(Tail(chunks))

QualifiesAsWritten(line) ==
    /\ Len(line) > 10
    /\ ~StartsWith(line, "@")
    /\ ~Includes(line, "Followers")
    /\ ~Includes(line, "Following")
    /\ ~Includes(line, "Posts")

\* C10 as stated: the bio is exactly the first line (of a chunk whose URL
\* lacks "/status/") that is longer than 10 characters, does not start with
\* "@" and contains none of the three words; undefined when there is none.
C10_AsStated ==
    Extracted =>
        LET found == SelectSeq(ProfilePageLines(input.searchResult.chunks),
                               QualifiesAsWritten)
        IN  output.value.bio = IF found = <<>> THEN Undefined ELSE Str(found[1])

\* C10 amended: the test is made on, and the bio is, the line with its
\* surrounding white space trimmed: the bio is the trimmed form of the first
\* line (chunk order, then line order, chunks whose URL lacks "/status/")
\* whose trimmed form is longer than 10 characters, does not start with "@"
\* and contains none of the three words; no later line replaces it, and the
\* bio is undefined when there is no such line.
C10_FirstTrimmedLineIsBio ==
    Extracted =>
        LET found == SelectSeq(TrimAll(ProfilePageLines(input.searchResult.chunks)),
                               QualifiesAsWritten)
        IN  output.value.bio = IF found = <<>> THEN Undefined ELSE Str(found[1])

\* Two qualifying lines in different chunks, the later one different.
C10_Witness ==
    /\ Extracted
    /\ LET found == SelectSeq(TrimAll(ProfilePageLines(input.searchResult.chunks)),
                              QualifiesAsWritten)
       IN  /\ Len(found) >= 2
           /\ found[1] # found[Len(found)]
           /\ Len(input.searchResult.chunks) >= 2
           /\ output.value.bio = Str(found[1])

(***************************************************************************)
(* JSON text.  JsonText is JSON.stringify on the values of the model (an   *)
(* object is a function from some of ObjectKeys to values; a property      *)
(* whose value is undefined is left out); JsonParse is JSON.parse on the   *)
(* texts the vendor can send: the documents below, or text that is no      *)
(* JSON.                                                                   *)
(***************************************************************************)
ObjectKeys ==
    <<"success", "error", "name", "handle", "bio", "traits", "interests",
      "profileImageUrl">>

Quoted(s) == "\"" \o s \o "\""

RECURSIVE JsonText(_)
JsonText(x) ==
    CASE x.t = "null" -> "null"
      [] x.t = "string" -> Quoted(x.v)
      [] x.t = "number" -> ToString(x.v)
      [] x.t = "boolean" -> IF x.v THEN "true" ELSE "false"
      [] x.t = "array" ->
            "[" \o Join([i \in 1..Len(x.v) |-> JsonText(x.v[i])], ",") \o "]"
      [] x.t = "object" ->
            LET IsMember(k) == k \in DOMAIN x.v /\ x.v[k].t # "undefined"
                keys == SelectSeq(ObjectKeys, IsMember)
            IN  "{" \o Join([i \in 1..Len(keys) |->
                                Quoted(keys[i]) \o ":" \o JsonText(x.v[keys[i]])],
                            ",") \o "}"

\* The part of a function on the keys that are given a value.
Given(f) ==
    LET keys == {k \in DOMAIN f : f[k].t # "undefined"}
    IN  [k \in keys |-> f[k]]

PersonaReplies ==
    {Obj(Given(f)) :
        f \in [name : {Undefined, Str(""), Str("Jane Doe")},
               handle : {Str("jdoe")},
               bio : {Str("Maps and coffee.")},
               traits : {Undefined, Arr(<<>>), Arr(<<Str("curious")>>)},
               interests : {Undefined, Arr(<<Str("hiking")>>)},
               profileImageUrl : {Undefined, Str("https://img.example/llm.png")}]}

JsonDocuments ==
    PersonaReplies \cup {Null, Num(5), Str("Jane Doe"), Arr(<<>>), Obj(<<>>)}

NotJson == {"Sorry, I cannot help with that.", "{\"name\":"}

JsonParse(text) ==
    IF \E d \in JsonDocuments : JsonText(d) = text
    THEN Return(CHOOSE d \in JsonDocuments : JsonText(d) = text)
    ELSE Throw("SyntaxError: Unexpected token in JSON")

(***************************************************************************)
(* OpenAIClient.generatePersona                                            *)
(***************************************************************************)
GenerationFailureMessage == "Failed to generate persona"
TweetLimit == 10

\* Stands for the bullet marker and the blank that start each list item.
Bullet == "* "

\* Variant of the list that leaves out slice(0, 10).
TweetListUnlimited(recentTweets) ==
    Join([i \in 1..Len(recentTweets) |-> Bullet \o recentTweets[i]], "\n")

\* recentTweets.slice(0, 10).map(tweet => bullet + tweet).join('\n')
TweetList(recentTweets) ==
    LET shown == SubSeq(recentTweets, 1,
                        IF Len(recentTweets) < TweetLimit
                        THEN Len(recentTweets) ELSE TweetLimit)
    IN  Join([i \in 1..Len(shown) |-> Bullet \o shown[i]], "\n")

UserMessage(context) ==
    "Here's information from an X (Twitter) user's profile:\n"
    \o (IF context.bio # "" THEN "Bio: " \o context.bio \o "\n\n" ELSE "")
    \o "Recent posts:\n"
    \o TweetList(context.recentTweets)
    \o "\nBased on this information, create a persona for this user."

\* Variant of the validation that looks at the name only.
HasNameOnly(personaData) == Truthy(GetProp(personaData, "name"))

\* !personaData.name || !personaData.traits || !personaData.interests
HasRequiredFields(personaData) ==
    /\ Truthy(GetProp(personaData, "name"))
    /\ Truthy(GetProp(personaData, "traits"))
    /\ Truthy(GetProp(personaData, "interests"))

\* What follows the chat-completion call: content is
\* response.choices[0]?.message?.content.
PersonaFromContent(content) ==
    IF ~Truthy(content)
    THEN Throw("Failed to generate persona: Empty response from OpenAI")
    ELSE LET parsed == JsonParse(content.v)
         IN  IF parsed.kind = "throw" THEN parsed
             ELSE IF ~CanReadProps(parsed.value)
             THEN Throw("TypeError: Cannot read properties of null")
             ELSE IF ~HasRequiredFields(parsed.value)
             THEN Throw("Failed to generate persona: Invalid response format")
             ELSE Return(parsed.value)

\* client: [apiKey, initialized] (the OpenAIClient); completion: the outcome
\* of client.chat.completions.create, Return(content) or Throw(message).
\* The result records the prompt that went out (if any), the error the
\* catch block logged, and whether the SDK client is now constructed.
generatePersona(client, context, completion) ==
    IF ~client.initialized /\ ~Truthy(client.apiKey)
    THEN [outcome |-> Throw(GenerationFailureMessage), sent |-> <<>>,
          cause |-> "OpenAI API key is required", initialized |-> FALSE]
    ELSE LET inner == IF completion.kind = "throw" THEN completion
                      ELSE PersonaFromContent(completion.value)
         IN  [outcome |-> IF inner.kind = "throw"
                          THEN Throw(GenerationFailureMessage) ELSE inner,
              sent |-> <<UserMessage(context)>>,
              cause |-> inner.message,
              initialized |-> TRUE]

Tweet(i) == "post number " \o ToString(i)

PersonaContexts ==
    [recentTweets : {[i \in 1..n |-> Tweet(i)] : n \in 0..MaxTweets},
     bio : {"", "Loves hiking and open source."}]

OpenAIClients ==
    {[apiKey |-> Undefined, initialized |-> FALSE],
     [apiKey |-> Str("sk-key"), initialized |-> FALSE],
     [apiKey |-> Str("sk-key"), initialized |-> TRUE]}

Completions ==
    {Throw("429 Rate limit exceeded"), Throw("Connection error."),
     Return(Undefined), Return(Null), Return(Str(""))}
    \cup {Return(Str(JsonText(d))) : d \in JsonDocuments}
    \cup {Return(Str(t)) : t \in NotJson}

GenerateInputs ==
    [fn : {"generatePersona"}, client : OpenAIClients,
     context : PersonaContexts, completion : Completions]

InitGenerate ==
    /\ Idle
    /\ input \in GenerateInputs
    /\ output = NoValue

CallGeneratePersona ==
    /\ input.fn = "generatePersona"
    /\ output = NoValue
    /\ output' = generatePersona(input.client, input.context, input.completion)
    /\ UNCHANGED <<routeVars, input, mapVars, clientVars>>

NextGenerate == CallGeneratePersona

SpecGenerate == InitGenerate /\ [][NextGenerate]_vars

(***************************************************************************)
(* C6: an incomplete, empty or unparseable reply is a generation failure.  *)
(***************************************************************************)
RequiredFields == {"name", "traits", "interests"}

\* The reply reached generatePersona: the call went out and came back.
ReplyArrived ==
    /\ input.fn = "generatePersona"
    /\ output # NoValue
    /\ output.sent # <<>>
    /\ input.completion.kind = "return"

ReplyEmpty ==
    \/ input.completion.value.t \in {"undefined", "null"}
    \/ input.completion.value = Str("")

ReplyDocuments ==
    {d \in JsonDocuments : JsonText(d) = input.completion.value.v}

ReplyUnparseable == ~ReplyEmpty /\ ReplyDocuments = {}

ReplyMissingField ==
    /\ ~ReplyEmpty
    /\ \E d \in ReplyDocuments :
          \/ d.t # "object"
          \/ \E k \in RequiredFields : k \notin DOMAIN d.v

\* C6: whenever the chat-completion reply is empty, is not parseable JSON,
\* or parses to JSON missing any of name, traits, interests, generatePersona
\* throws the error 'Failed to generate persona' and returns no persona.
C6_IncompleteReplyFails ==
    (ReplyArrived /\ (ReplyEmpty \/ ReplyUnparseable \/ ReplyMissingField)) =>
        /\ output.outcome.kind = "throw"
        /\ output.outcome.message = "Failed to generate persona"
        /\ output.outcome.value = Undefined

\* A reply that has a name and traits but no interests.
C6_Witness ==
    /\ ReplyArrived
    /\ ReplyMissingField
    /\ \E d \in ReplyDocuments :
          /\ d.t = "object"
          /\ {"name", "traits"} \subseteq DOMAIN d.v
          /\ Truthy(d.v["name"])
          /\ "interests" \notin DOMAIN d.v
    /\ output.outcome.kind = "throw"

(***************************************************************************)
(* The route handlers.                                                     *)
(***************************************************************************)
\* What lib/exa.ts and lib/openai.ts export under the names exaClient and
\* openaiClient: the lazy accessor, a function value.
Fn(name) == [t |-> "function", v |-> name]
Instance(class) == [t |-> "instance", v |-> class]

exaClient == Fn("exaClient")

openaiClient == Fn("openaiClient")

ClassMethods ==
    [ExaClient |-> {"searchXProfile", "extractProfileInfo"},
     OpenAIClient |-> {"generatePersona"}]

\* `x.m(...)` is a TypeError unless x has a callable property m; a function
\* value has none of the clients' methods.
HasMethod(x, m) == x.t = "instance" /\ m \in ClassMethods[x.v]

NotAFunction(x, m) == "TypeError: " \o x.v \o "." \o m \o " is not a function"

PersonaInvalidHandle == "Invalid X handle. Please provide a valid X username."
PersonaNotFound ==
    "Could not find X profile data. Please check the handle and try again."
PersonaGenericError == "Failed to generate persona. Please try again later."

LocationsInvalid == "Invalid request. Please provide both persona and location."
LocationsNotFound ==
    "No suitable locations found. Please try a different location or X profile."
LocationsGenericError ==
    "Failed to find recommended locations. Please try again later."

\* NextResponse.json(body, {status}): the body as the caller receives it,
\* properties whose value is undefined left out.
Json(status, props) == [status |-> status, body |-> Given(props)]

Failure(status, error) ==
    Json(status, [success |-> Bool(FALSE), error |-> Str(error)])

\* The run of a handler: its response, the client methods it invoked and
\* the message of the error its catch block logged ("" when none).
Answer(resp, invoked) == [response |-> resp, calls |-> invoked, logged |-> ""]

\* Variant of the persona catch block that leaves out { status: 500 }, so
\* that the response has the default status.
PersonaCaughtDefaultStatus(message, invoked) ==
    [response |-> Failure(200, PersonaGenericError), calls |-> invoked,
     logged |-> message]

\* catch (error) { console.error(...); return 500 with the fixed text }
PersonaCaught(message, invoked) ==
    [response |-> Failure(500, PersonaGenericError), calls |-> invoked,
     logged |-> message]

\* Variant of the locations catch block that returns the error's message.
LocationsCaughtLeaks(message, invoked) ==
    [response |-> Failure(500, message), calls |-> invoked, logged |-> message]

\* Variant of the locations catch block that leaves out { status: 500 }.
LocationsCaughtDefaultStatus(message, invoked) ==
    [response |-> Failure(200, LocationsGenericError), calls |-> invoked,
     logged |-> message]

LocationsCaught(message, invoked) ==
    [response |-> Failure(500, LocationsGenericError), calls |-> invoked,
     logged |-> message]

\* { ...personaData, profileImageUrl: profileInfo.profileImageUrl }
MergeProfileImage(personaData, profileImageUrl) ==
    Obj([k \in DOMAIN personaData.v \cup {"profileImageUrl"} |->
            IF k = "profileImageUrl" THEN profileImageUrl ELSE personaData.v[k]])

\* Step 3 of the persona handler and the success response.
PersonaGenerateStep(profileInfo, e, invoked) ==
    IF ~HasMethod(openaiClient, "generatePersona")
    THEN PersonaCaught(NotAFunction(openaiClient, "generatePersona"), invoked)
    ELSE LET bio == IF Truthy(profileInfo.bio) THEN profileInfo.bio.v ELSE ""
             gen == generatePersona(e.openai,
                                    [recentTweets |-> profileInfo.tweets,
                                     bio |-> bio],
                                    e.completion)
             after == Append(invoked, "generatePersona")
         IN  IF gen.outcome.kind = "throw"
             THEN PersonaCaught(gen.outcome.message, after)
             ELSE Answer(Json(200,
                              [success |-> Bool(TRUE),
                               persona |-> MergeProfileImage(
                                               gen.outcome.value,
                                               profileInfo.profileImageUrl)]),
                         after)

\* Steps 1 and 2 of the persona handler and the 404 response.
PersonaSearchStep(cleanHandle, e) ==
    IF ~HasMethod(exaClient, "searchXProfile")
    THEN PersonaCaught(NotAFunction(exaClient, "searchXProfile"), <<>>)
    ELSE LET search == searchXProfile(e.exaKey, cleanHandle, e.post)
             invoked == <<"searchXProfile">>
         IN  IF search.outcome.kind = "throw"
             THEN PersonaCaught(search.outcome.message, invoked)
             ELSE LET profileInfo == extractProfileInfo(search.outcome.value)
                  IN  IF profileInfo.tweets = <<>>
                      THEN Answer(Failure(404, PersonaNotFound), invoked)
                      ELSE PersonaGenerateStep(profileInfo, e, invoked)

\* Variant of the validation that rejects a missing handle only.
HandleMissingUndefinedOnly(xHandle) == xHandle.t = "undefined"

\* if (!xHandle)
HandleMissing(xHandle) == ~Truthy(xHandle)

\* POST of the persona endpoint.  body: the outcome of request.json();
\* e: what the vendors would answer.
PostPersonaRun(body, e) ==
    IF body.kind = "throw" THEN PersonaCaught(body.message, <<>>)
    ELSE IF ~CanReadProps(body.value)
    THEN PersonaCaught("TypeError: Cannot destructure property 'xHandle'", <<>>)
    ELSE LET xHandle == GetProp(body.value, "xHandle")
         IN  IF HandleMissing(xHandle)
             THEN Answer(Failure(400, PersonaInvalidHandle), <<>>)
             ELSE IF xHandle.t # "string"
             THEN PersonaCaught("TypeError: xHandle.replace is not a function", <<>>)
             ELSE PersonaSearchStep(ReplaceLeadingAt(xHandle.v), e)

\* Variant of the validation that tests the persona only.
LocationsFieldsMissingPersonaOnly(persona, location) == ~Truthy(persona)

\* if (!persona || !location)
LocationsFieldsMissing(persona, location) ==
    ~Truthy(persona) \/ ~Truthy(location)

\* Variant of the empty-list test that never answers 404.
NoLocationsNever(recommendedLocations) == FALSE

\* if (recommendedLocations.length === 0)
NoLocations(recommendedLocations) == Len(recommendedLocations.v) = 0

\* POST of the locations endpoint.  e.maps: the outcome of
\* googleMapsClient().findRecommendedLocations(persona, location).
PostLocationsRun(body, e) ==
    IF body.kind = "throw" THEN LocationsCaught(body.message, <<>>)
    ELSE IF ~CanReadProps(body.value)
    THEN LocationsCaught("TypeError: Cannot destructure property 'persona'", <<>>)
    ELSE LET persona == GetProp(body.value, "persona")
             location == GetProp(body.value, "location")
             invoked == <<"findRecommendedLocations">>
         IN  IF LocationsFieldsMissing(persona, location)
             THEN Answer(Failure(400, LocationsInvalid), <<>>)
             ELSE IF e.maps.kind = "throw"
             THEN LocationsCaught(e.maps.message, invoked)
             ELSE IF NoLocations(e.maps.value)
             THEN Answer(Failure(404, LocationsNotFound), invoked)
             ELSE Answer(Json(200, [success |-> Bool(TRUE),
                                    locations |-> e.maps.value]),
                         invoked)

(***************************************************************************)
(* Requests and vendor answers the handlers are run on.                    *)
(***************************************************************************)
MalformedJson == Throw("SyntaxError: Unexpected end of JSON input")

PersonaBodies ==
    {MalformedJson, Return(Null), Return(Num(5)), Return(Str("jdoe")),
     Return(Arr(<<>>))}
    \cup {Return(Obj(Given([xHandle |-> x]))) :
            x \in {Undefined, Null, Str(""), Str("jdoe"), Str("@jdoe"),
                   Str("@@jdoe"), Str("@"), Num(0), Num(42), Bool(FALSE),
                   Arr(<<>>), Obj(<<>>)}}

ProfileChunk(text, extra) ==
    [text |-> text, url |-> "https://x.com/jdoe", extra_info |-> extra]

ImageA ==
    Obj([image_url |-> Str("https://img.example/a.png"),
         title |-> Str("Jane Doe (@jdoe) / X")])

SearchResults ==
    {[chunks |-> <<>>],
     [chunks |-> <<ProfileChunk(" \n ", ImageA)>>],
     [chunks |-> <<ProfileChunk("Loves hiking and open source.", ImageA)>>],
     [chunks |-> <<ProfileChunk("", Undefined),
                   ProfileChunk("Coffee first", Undefined)>>]}

FullPersona ==
    Obj([name |-> Str("Jane Doe"), handle |-> Str("jdoe"),
         bio |-> Str("Maps and coffee."), traits |-> Arr(<<Str("curious")>>),
         interests |-> Arr(<<Str("hiking")>>),
         profileImageUrl |-> Str("https://img.example/llm.png")])

PersonaWithoutInterests ==
    Obj([name |-> Str("Jane Doe"), handle |-> Str("jdoe"),
         bio |-> Str("Maps and coffee."), traits |-> Arr(<<Str("curious")>>)])

NoMaps == Return(Arr(<<>>))

PersonaEnvs ==
    [exaKey : {Undefined, Str("key")},
     post : {Throw("Network Error")} \cup {Return(r) : r \in SearchResults},
     openai : {c \in OpenAIClients : ~c.initialized},
     completion : {Throw("429 Rate limit exceeded"), Return(Str("")),
                   Return(Str(JsonText(FullPersona))),
                   Return(Str(JsonText(PersonaWithoutInterests)))},
     maps : {NoMaps}]

MaxLocations == 2

Place(id, name, category) ==
    Obj([id |-> Str(id), name |-> Str(name), category |-> Str(category)])

Places == {Place("p1", "High Park", "park"), Place("p2", "Cafe Pamenar", "cafe")}

LocationsBodies ==
    {MalformedJson, Return(Null), Return(Num(5))}
    \cup {Return(Obj(Given([persona |-> p, location |-> l]))) :
            p \in {Undefined, Null, Str(""), Obj(<<>>), FullPersona},
            l \in {Undefined, Str(""), Str("Toronto"), Num(0)}}

LocationsEnvs ==
    [exaKey : {Undefined},
     post : {Throw("Network Error")},
     openai : {c \in OpenAIClients : ~Truthy(c.apiKey)},
     completion : {Return(Str(""))},
     maps : {Throw("Google Maps API key is required"),
             Throw("Request failed with status code 403"),
             Throw("Failed to find recommended locations: ZERO_RESULTS")}
            \cup {Return(Arr(l)) : l \in SeqsUpTo(Places, MaxLocations)}]

Init ==
    /\ Idle
    /\ input = NoValue
    /\ output = NoValue

\* A request reaches one of the two routes; the handlers keep nothing from
\* one request to the next.
Receive ==
    /\ request = NoValue \/ response # NoValue
    /\ \/ \E body \in PersonaBodies, e \in PersonaEnvs :
             /\ request' = [kind |-> "request", endpoint |-> "persona",
                            body |-> body]
             /\ env' = e
       \/ \E body \in LocationsBodies, e \in LocationsEnvs :
             /\ request' = [kind |-> "request", endpoint |-> "locations",
                            body |-> body]
             /\ env' = e
    /\ response' = NoValue
    /\ calls' = <<>>
    /\ logged' = ""
    /\ UNCHANGED <<input, output, mapVars, clientVars>>

Pending(endpoint) ==
    /\ request # NoValue
    /\ request.endpoint = endpoint
    /\ response = NoValue

PostPersona ==
    /\ Pending("persona")
    /\ LET run == PostPersonaRun(request.body, env)
       IN  /\ response' = run.response
           /\ calls' = run.calls
           /\ logged' = run.logged
    /\ UNCHANGED <<request, env, input, output, mapVars, clientVars>>

PostLocations ==
    /\ Pending("locations")
    /\ LET run == PostLocationsRun(request.body, env)
       IN  /\ response' = run.response
           /\ calls' = run.calls
           /\ logged' = run.logged
    /\ UNCHANGED <<request, env, input, output, mapVars, clientVars>>

Next == Receive \/ PostPersona \/ PostLocations

Spec == Init /\ [][Next]_vars

(***************************************************************************)
(* Claims about the route handlers.                                        *)
(***************************************************************************)
Answered(endpoint) ==
    /\ request # NoValue
    /\ request.endpoint = endpoint
    /\ response # NoValue

\* The request carried a JSON body other than null, so that its fields can
\* be read.
BodyRead == request.body.kind = "return" /\ request.body.value.t # "null"

Field(key) == GetProp(request.body.value, key)

AbsentOrEmpty(x) == x.t \in {"undefined", "null"} \/ x = Str("")

NonEmptyString(x) == x.t = "string" /\ x.v # ""

Refused(status) ==
    /\ response.status = status
    /\ response.body.success = Bool(FALSE)

\* C1: every request to the persona endpoint whose body has no xHandle, or
\* an empty one, is answered 400 with success:false, and neither the search
\* client nor the persona generator is invoked.
C1_MissingHandleIs400 ==
    (Answered("persona") /\ BodyRead /\ AbsentOrEmpty(Field("xHandle"))) =>
        /\ Refused(400)
        /\ calls = <<>>

C1_Witness ==
    /\ Answered("persona")
    /\ BodyRead
    /\ Field("xHandle") = Str("")
    /\ env.exaKey = Str("key")
    /\ response.status = 400

\* The search would succeed and return these chunks.
SearchWouldReturn ==
    /\ Truthy(env.exaKey)
    /\ env.post.kind = "return"

HasText(chunk) == Trim(chunk.text) # ""

TextChunks == SelectSeq(env.post.value.chunks, HasText)

\* C2 as stated: every request to the persona endpoint with a non-empty
\* handle whose search result has no chunk with non-empty trimmed text is
\* answered 404 with success:false, and persona generation is not invoked.
C2_AsStated ==
    (/\ Answered("persona")
     /\ BodyRead
     /\ NonEmptyString(Field("xHandle"))
     /\ SearchWouldReturn
     /\ TextChunks = <<>>) =>
        /\ Refused(404)
        /\ \A i \in 1..Len(calls) : calls[i] # "generatePersona"

\* The generator would return a persona with name, traits and interests.
GeneratorWouldReturn ==
    /\ Truthy(env.openai.apiKey)
    /\ env.completion.kind = "return"
    /\ env.completion.value.t = "string"
    /\ \E d \in JsonDocuments :
          /\ JsonText(d) = env.completion.value.v
          /\ d.t = "object"
          /\ \A k \in RequiredFields : k \in DOMAIN d.v /\ Truthy(d.v[k])

GeneratedPersona ==
    CHOOSE d \in JsonDocuments : JsonText(d) = env.completion.value.v

\* The image URL of the first chunk that has one, Undefined when none has.
FirstImage(chunks) ==
    LET HasImage(c) == Truthy(GetProp(c.extra_info, "image_url"))
        withImage == SelectSeq(chunks, HasImage)
    IN  IF withImage = <<>> THEN Undefined
        ELSE GetProp(withImage[1].extra_info, "image_url")

\* C3 as stated: every request to the persona endpoint with a non-empty
\* string handle, for which the search returns a text-bearing chunk and the
\* generator returns a persona with name, traits and interests, is answered
\* 200 with success:true and the generated fields, profileImageUrl being
\* the image extracted from the search result.
C3_AsStated ==
    (/\ Answered("persona")
     /\ BodyRead
     /\ NonEmptyString(Field("xHandle"))
     /\ SearchWouldReturn
     /\ TextChunks # <<>>
     /\ GeneratorWouldReturn) =>
        /\ response.status = 200
        /\ response.body.success = Bool(TRUE)
        /\ "persona" \in DOMAIN response.body
        /\ \A k \in DOMAIN GeneratedPersona.v \ {"profileImageUrl"} :
              response.body.persona.v[k] = GeneratedPersona.v[k]
        /\ response.body.persona.v["profileImageUrl"]
              = FirstImage(env.post.value.chunks)

\* C4: every request to the locations endpoint whose body has no persona or
\* no location, or an empty one, is answered 400 with success:false, and
\* the location recommender is not invoked.
C4_MissingFieldIs400 ==
    (/\ Answered("locations")
     /\ BodyRead
     /\ AbsentOrEmpty(Field("persona")) \/ AbsentOrEmpty(Field("location"))) =>
        /\ Refused(400)
        /\ calls = <<>>

\* The persona is there, the location is not, and the recommender would
\* have had places to return.
C4_Witness ==
    /\ Answered("locations")
    /\ BodyRead
    /\ Field("persona") = FullPersona
    /\ Field("location") = Str("")
    /\ env.maps.kind = "return"
    /\ env.maps.value.v # <<>>
    /\ response.status = 400

FieldsPresent ==
    /\ BodyRead
    /\ Field("persona").t = "object"
    /\ NonEmptyString(Field("location"))

\* C5: for every request to the locations endpoint with persona and
\* location present, an empty list from the recommender is answered 404
\* with success:false and no locations field, and a non-empty list is
\* answered 200 with success:true and exactly that list.
C5_ListDecidesAnswer ==
    (Answered("locations") /\ FieldsPresent /\ env.maps.kind = "return") =>
        IF env.maps.value.v = <<>>
        THEN /\ Refused(404)
             /\ "locations" \notin DOMAIN response.body
        ELSE /\ response.status = 200
             /\ response.body.success = Bool(TRUE)
             /\ "locations" \in DOMAIN response.body
             /\ response.body.locations = env.maps.value

C5_Witness ==
    /\ Answered("locations")
    /\ FieldsPresent
    /\ env.maps.kind = "return"
    /\ env.maps.value.v = <<>>
    /\ response.status = 404

GenericError(endpoint) ==
    IF endpoint = "persona"
    THEN "Failed to generate persona. Please try again later."
    ELSE "Failed to find recommended locations. Please try again later."

\* C7: in either endpoint, whenever an error (an upstream client's among
\* them) reaches the handler's catch block, the response is the same
\* whatever the error: status 500 and a body made of success:false and the
\* endpoint's fixed error string, so that nothing of the error's message is
\* returned.
C7_UpstreamErrorIsGeneric500 ==
    (request # NoValue /\ response # NoValue /\ logged # "") =>
        /\ response.status = 500
        /\ response.body
              = [success |-> Bool(FALSE),
                 error |-> Str(GenericError(request.endpoint))]

\* The location recommender raised an error during the request.
C7_Witness ==
    /\ Answered("locations")
    /\ calls = <<"findRecommendedLocations">>
    /\ env.maps.kind = "throw"
    /\ logged = env.maps.message
    /\ response.status = 500

BadPersonaFields ==
    \/ request.body.kind = "return" /\ request.body.value.t # "object"
    \/ BodyRead /\ ~NonEmptyString(Field("xHandle"))

BadLocationsFields ==
    \/ request.body.kind = "return" /\ request.body.value.t # "object"
    \/ BodyRead /\ (AbsentOrEmpty(Field("persona"))
                    \/ AbsentOrEmpty(Field("location")))

\* C8 as stated: every request to either endpoint whose fields are bad or
\* missing (a JSON body that is null or not an object, an xHandle that is
\* not a string, a missing or empty field) is answered 400, never 500.
C8_AsStated ==
    (\/ Answered("persona") /\ BadPersonaFields
     \/ Answered("locations") /\ BadLocationsFields) =>
        response.status = 400

(***************************************************************************)
(* C11 - C13: image, name and tweets of extractProfileInfo.                *)
(***************************************************************************)
ImageOf(chunk) == GetProp(chunk.extra_info, "image_url")

ExposesImage(chunk) == ImageOf(chunk).t = "string" /\ ImageOf(chunk).v # ""

\* C11: the returned profileImageUrl is the image URL of the first chunk, in
\* processing order, that exposes one, whatever later chunks expose, and is
\* undefined when no chunk exposes one.
C11_FirstImageWins ==
    Extracted =>
        LET exposing == SelectSeq(input.searchResult.chunks, ExposesImage)
        IN  output.value.profileImageUrl
                = IF exposing = <<>> THEN Undefined ELSE ImageOf(exposing[1])

\* Two chunks that expose different images.
C11_Witness ==
    /\ Extracted
    /\ LET exposing == SelectSeq(input.searchResult.chunks, ExposesImage)
       IN  /\ Len(exposing) = 2
           /\ ImageOf(exposing[1]) # ImageOf(exposing[2])
           /\ output.value.profileImageUrl = ImageOf(exposing[1])

TitleOf(chunk) == GetProp(chunk.extra_info, "title")

\* The text of a title before its first "(" (the whole title when it has
\* none).
BeforeParenthesis(title) ==
    IF \E i \in 1..Len(title) : CharAt(title, i) = "("
    THEN SubSeq(title, 1,
                (CHOOSE i \in 1..Len(title) :
                    /\ CharAt(title, i) = "("
                    /\ \A j \in 1..(i - 1) : CharAt(title, j) # "(") - 1)
    ELSE title

\* The title has some text before an opening parenthesis (a title without
\* parenthesis counts, all of it being that text).
TitleMatches(chunk) ==
    /\ TitleOf(chunk).t = "string"
    /\ BeforeParenthesis(TitleOf(chunk).v) # ""

NameIn(chunk) == Trim(BeforeParenthesis(TitleOf(chunk).v))

\* C12 as stated: the returned name is the trimmed text before the first
\* opening parenthesis of the title of the first chunk whose title matches,
\* and no title of a later chunk changes it.
C12_AsStated ==
    Extracted =>
        LET matching == SelectSeq(input.searchResult.chunks, TitleMatches)
        IN  output.value.name
                = IF matching = <<>> THEN Undefined ELSE Str(NameIn(matching[1]))

HasName(chunk) == TitleMatches(chunk) /\ NameIn(chunk) # ""

\* C12 amended: the returned name is the trimmed text before the first
\* opening parenthesis of the title of the first chunk whose title matches
\* and whose trimmed text is not empty, and no title of a later chunk
\* changes it; when every matching title is blank before its parenthesis
\* the name is the empty string, and when no title matches it is undefined.
C12_FirstNonBlankNameWins ==
    Extracted =>
        LET matching == SelectSeq(input.searchResult.chunks, TitleMatches)
            named == SelectSeq(input.searchResult.chunks, HasName)
        IN  output.value.name
                = IF named # <<>> THEN Str(NameIn(named[1]))
                  ELSE IF matching # <<>> THEN Str("")
                  ELSE Undefined

\* Two chunks whose titles give different names.
C12_Witness ==
    /\ Extracted
    /\ LET named == SelectSeq(input.searchResult.chunks, HasName)
       IN  /\ Len(named) = 2
           /\ NameIn(named[1]) # NameIn(named[2])
           /\ output.value.name = Str(NameIn(named[1]))

TextOf(chunk) == Trim(chunk.text)

BearsText(chunk) == TextOf(chunk) # ""

\* C13: the returned tweets are exactly the trimmed texts of the chunks
\* whose trimmed text is not empty, in chunk order, duplicates kept, so
\* that there are as many tweets as such chunks; a chunk that sets the
\* bio, the name or the image does not stop later chunks from contributing.
C13_EveryTextIsATweet ==
    Extracted =>
        LET bearing == SelectSeq(input.searchResult.chunks, BearsText)
        IN  /\ Len(output.value.tweets) = Len(bearing)
            /\ \A i \in 1..Len(bearing) :
                  output.value.tweets[i] = TextOf(bearing[i])

\* The first chunk sets bio, name and image, and the second chunk has the
\* same text again.
C13_Witness ==
    /\ Extracted
    /\ Len(input.searchResult.chunks) = 2
    /\ LET first == input.searchResult.chunks[1]
           second == input.searchResult.chunks[2]
       IN  /\ ExposesImage(first)
           /\ HasName(first)
           /\ output.value.bio = Str(TextOf(first))
           /\ TextOf(second) = TextOf(first)
           /\ output.value.tweets = <<TextOf(first), TextOf(first)>>

(***************************************************************************)
(* C14: the outbound calls of a persona request.                           *)
(***************************************************************************)
Count(seq, x) == Cardinality({i \in 1..Len(seq) : seq[i] = x})

SearchInvoked == Count(calls, "searchXProfile") > 0

GenerationInvoked == Count(calls, "generatePersona") > 0

\* A step of the request failed: an error reached the catch block.
StepFailed == logged # ""

ErrorResponse ==
    /\ response.status \in {400, 404, 500}
    /\ response.body.success = Bool(FALSE)
    /\ "persona" \notin DOMAIN response.body

\* C14: in every persona request each outbound client is called at most
\* once, generation is called only after a search that returned, and after
\* the search only; once a step has failed no further call is made (a
\* failed search is the last call) and the request ends with an error
\* response.
C14_SequentialNoRetry ==
    Answered("persona") =>
        /\ Count(calls, "searchXProfile") <= 1
        /\ Count(calls, "generatePersona") <= 1
        /\ \A i \in 1..Len(calls) : calls[i] \in {"searchXProfile", "generatePersona"}
        /\ GenerationInvoked =>
              /\ calls = <<"searchXProfile", "generatePersona">>
              /\ SearchWouldReturn
        /\ (SearchInvoked /\ ~SearchWouldReturn) =>
              /\ calls = <<"searchXProfile">>
              /\ StepFailed
        /\ StepFailed => ErrorResponse
        /\ response.status # 200 => ErrorResponse

\* A step of a request with a usable handle failed, although both vendors
\* would have answered.
C14_Witness ==
    /\ Answered("persona")
    /\ NonEmptyString(Field("xHandle"))
    /\ SearchWouldReturn
    /\ GeneratorWouldReturn
    /\ StepFailed
    /\ response.status = 500
    /\ ~GenerationInvoked

(***************************************************************************)
(* C15: the tweets listed in the user prompt.                              *)
(***************************************************************************)
PromptSent ==
    /\ input.fn = "generatePersona"
    /\ output # NoValue
    /\ output.sent # <<>>

IsListItem(line) == StartsWith(line, Bullet)

\* C15: for a tweet list of length n, the user prompt sent to the
\* chat-completion API lists exactly the first min(n, 10) tweets, in their
\* order, one bullet each, and no tweet beyond the tenth appears in it.
C15_PromptListsFirstTen ==
    PromptSent =>
        LET tweets == input.context.recentTweets
            listed == SelectSeq(SplitLines(output.sent[1]), IsListItem)
            shown == IF Len(tweets) < 10 THEN Len(tweets) ELSE 10
        IN  /\ Len(listed) = shown
            /\ \A i \in 1..shown : listed[i] = Bullet \o tweets[i]
            /\ \A i \in 11..Len(tweets) : ~Includes(output.sent[1], tweets[i])

\* More than ten tweets were passed.
C15_Witness ==
    /\ PromptSent
    /\ Len(input.context.recentTweets) > 10
    /\ Len(SelectSeq(SplitLines(output.sent[1]), IsListItem)) = 10

(***************************************************************************)
(* LocationMap (src/components/LocationMap.tsx): the mapCenter state and   *)
(* the effect that centres the map.  Latitudes and longitudes are counted  *)
(* in units of 0.00005 degree, so that the midpoint of two of the model's  *)
(* coordinates is again a whole number of units.                           *)
(***************************************************************************)
LatLng(lat, lng) == Obj([lat |-> lat, lng |-> lng])

\* { lat: 43.6532, lng: -79.3832 }
Toronto == LatLng(873064, -1587664)

\* useState(...): the state the component is mounted with.
InitialMapCenter == Toronto

MapPoints ==
    {LatLng(872800, -1588000), LatLng(873400, -1587200),
     LatLng(873000, -1587600)}

MapLocations ==
    SeqsUpTo([id : {"place"}, coordinates : MapPoints], MaxLocations)

MapProps ==
    [locations : MapLocations,
     centerCoordinates : {Undefined} \cup (MapPoints \ {LatLng(873000, -1587600)})]

Largest(S) == CHOOSE x \in S : \A y \in S : y <= x
Smallest(S) == CHOOSE x \in S : \A y \in S : x <= y

\* new google.maps.LatLngBounds() extended by every location: its south-west
\* and north-east corners (all the model's points lie in one hemisphere, so
\* the longitude span does not wrap).
Bounds(locations) ==
    LET lats == {locations[i].coordinates.v.lat : i \in 1..Len(locations)}
        lngs == {locations[i].coordinates.v.lng : i \in 1..Len(locations)}
    IN  [sw |-> [lat |-> Smallest(lats), lng |-> Smallest(lngs)],
         ne |-> [lat |-> Largest(lats), lng |-> Largest(lngs)]]

BoundsCenter(locations) ==
    LET bounds == Bounds(locations)
    IN  LatLng((bounds.ne.lat + bounds.sw.lat) \div 2,
               (bounds.ne.lng + bounds.sw.lng) \div 2)

\* The body of the effect: the value of mapCenter once it has run.
CenterEffect(locations, centerCoordinates, center) ==
    IF Len(locations) > 0 /\ ~Truthy(centerCoordinates) /\ ~Truthy(center)
    THEN BoundsCenter(locations)
    ELSE IF Truthy(centerCoordinates) THEN centerCoordinates
    ELSE center

\* The component is mounted: first render, the effect is scheduled.
InitMap ==
    /\ NoRequest
    /\ ModulesLoaded
    /\ input = NoValue
    /\ output = NoValue
    /\ mapProps \in MapProps
    /\ mapCenter = InitialMapCenter
    /\ effectPending = TRUE

\* The parent renders the component again with other props: the state is
\* kept, and the effect is scheduled because its dependencies changed.
Render ==
    /\ ~effectPending
    /\ \E p \in MapProps \ {mapProps} : mapProps' = p
    /\ effectPending' = TRUE
    /\ UNCHANGED <<routeVars, input, output, mapCenter, clientVars>>

\* The effect runs after the render.  setMapCenter with another value
\* renders again, and mapCenter is one of the effect's dependencies.
RunCenterEffect ==
    /\ effectPending
    /\ mapCenter' = CenterEffect(mapProps.locations,
                                 mapProps.centerCoordinates, mapCenter)
    /\ effectPending' = (mapCenter' # mapCenter)
    /\ UNCHANGED <<routeVars, input, output, mapProps, clientVars>>

NextMap == Render \/ RunCenterEffect

SpecMap == InitMap /\ [][NextMap]_vars

EffectsDone ==
    /\ mapProps # NoValue
    /\ ~effectPending

\* C16: once the effects have run, mapCenter is the midpoint of the bounding
\* box of the locations when there are locations and no centerCoordinates,
\* centerCoordinates when it is supplied, and the fallback (43.6532,
\* -79.3832) only when there are neither locations nor centerCoordinates.
C16_AsStated ==
    EffectsDone =>
        LET locations == mapProps.locations
            centerCoordinates == mapProps.centerCoordinates
        IN  /\ (centerCoordinates = Undefined /\ locations # <<>>)
                   => mapCenter = BoundsCenter(locations)
            /\ centerCoordinates # Undefined => mapCenter = centerCoordinates
            /\ mapCenter = Toronto
                   => (centerCoordinates = Undefined /\ locations = <<>>)

(***************************************************************************)
(* The lazily built singletons: exaClient() (exa.ts) and openaiClient()    *)
(* and OpenAIClient.initializeClient (openai.ts).  Each of the three is    *)
(* synchronous: it holds no await, so the event loop runs it to the end    *)
(* before any other request's code.  Concurrent requests therefore         *)
(* interleave between these calls, never inside one, and an interleaving   *)
(* is a sequence of calls in any order.                                    *)
(***************************************************************************)
MaxAccessorCalls == 4

\* The n-th object built of a class; its identity is (class, id).
NewExaClient(n, envKey) ==
    Obj([class |-> "ExaClient", id |-> n, apiKey |-> envKey])

NewOpenAIClient(n, envKey) ==
    Obj([class |-> "OpenAIClient", id |-> n, apiKey |-> envKey,
         client |-> Null])

NewOpenAI(n, key) == Obj([class |-> "OpenAI", id |-> n, apiKey |-> key])

\* if (!clientInstance): the accessor builds an instance.
MustConstructAlways(clientInstance) == TRUE

MustConstruct(clientInstance) == ~Truthy(clientInstance)

Built(class) == [constructed EXCEPT ![class] = @ + 1]

Handed(accessor, instance) ==
    Append(returned, [accessor |-> accessor, class |-> instance.v.class,
                      id |-> instance.v.id])

\* exaClient()
CallExaClient ==
    /\ Len(returned) < MaxAccessorCalls
    /\ \E envKey \in ApiKeys :
          IF MustConstruct(exaClientInstance)
          THEN /\ exaClientInstance' =
                      NewExaClient(constructed.ExaClient + 1, envKey)
               /\ constructed' = Built("ExaClient")
          ELSE UNCHANGED <<exaClientInstance, constructed>>
    /\ returned' = Handed("exaClient", exaClientInstance')
    /\ UNCHANGED <<routeVars, input, output, mapVars, openaiClientInstance>>

\* openaiClient()
CallOpenaiClient ==
    /\ Len(returned) < MaxAccessorCalls
    /\ \E envKey \in ApiKeys :
          IF MustConstruct(openaiClientInstance)
          THEN /\ openaiClientInstance' =
                      NewOpenAIClient(constructed.OpenAIClient + 1, envKey)
               /\ constructed' = Built("OpenAIClient")
          ELSE UNCHANGED <<openaiClientInstance, constructed>>
    /\ returned' = Handed("openaiClient", openaiClientInstance')
    /\ UNCHANGED <<routeVars, input, output, mapVars, exaClientInstance>>

\* initializeClient() on the shared OpenAIClient, as a holder of it starting
\* generatePersona calls it.  Without an API key it throws and builds
\* nothing.
InitializeClient ==
    /\ Truthy(openaiClientInstance)
    /\ LET this == openaiClientInstance.v
       IN  IF ~Truthy(this.client) /\ Truthy(this.apiKey)
           THEN /\ openaiClientInstance' =
                       Obj([this EXCEPT !.client =
                               NewOpenAI(constructed.OpenAI + 1,
                                         this.apiKey)])
                /\ constructed' = Built("OpenAI")
           ELSE UNCHANGED <<openaiClientInstance, constructed>>
    /\ UNCHANGED <<routeVars, input, output, mapVars, exaClientInstance,
                   returned>>

InitClients ==
    /\ Idle
    /\ input = NoValue
    /\ output = NoValue

NextClients == CallExaClient \/ CallOpenaiClient \/ InitializeClient

SpecClients == InitClients /\ [][NextClients]_vars

CallsOf(accessor) ==
    {i \in DOMAIN returned : returned[i].accessor = accessor}

\* C17: in any order of accessor calls, at most one ExaClient and at most
\* one OpenAIClient is ever built (and at most one OpenAI SDK client inside
\* the latter), and all calls of one accessor return the same instance.
C17_OneInstancePerAccessor ==
    /\ constructed.ExaClient <= 1
    /\ constructed.OpenAIClient <= 1
    /\ constructed.OpenAI <= 1
    /\ \A accessor \in {"exaClient", "openaiClient"} :
          \A i, j \in CallsOf(accessor) : returned[i] = returned[j]

C17_Witness ==
    /\ Cardinality(CallsOf("exaClient")) >= 2
    /\ Cardinality(CallsOf("openaiClient")) >= 2
    /\ returned[1].accessor # returned[2].accessor
    /\ constructed = [ExaClient |-> 1, OpenAIClient |-> 1, OpenAI |-> 1]

(***************************************************************************)
(* The shape of the responses of the two routes.                           *)
(***************************************************************************)
PayloadField(endpoint) ==
    IF endpoint = "persona" THEN "persona" ELSE "locations"

Succeeded == "success" \in DOMAIN response.body
                 /\ response.body.success = Bool(TRUE)

Failed == "success" \in DOMAIN response.body
              /\ response.body.success = Bool(FALSE)

\* C18: every response of either endpoint, the catch block's included, has
\* a status among 200, 400, 404 and 500; success is true exactly when the
\* status is 200; the payload field (persona or locations) is present
\* exactly when success is true, and the error field exactly when success
\* is false.
C18_ResponseShape ==
    (request # NoValue /\ response # NoValue) =>
        /\ response.status \in {200, 400, 404, 500}
        /\ Succeeded \/ Failed
        /\ Succeeded <=> response.status = 200
        /\ PayloadField(request.endpoint) \in DOMAIN response.body
               <=> Succeeded
        /\ "error" \in DOMAIN response.body <=> Failed

\* A response made by a catch block.
C18_Witness ==
    /\ Answered("persona")
    /\ logged # ""
    /\ Failed
    /\ DOMAIN response.body = {"success", "error"}

====
